---- MODULE Spec2Model ----
(***************************************************************************)
(* Model of the markdown conversion pipeline of the markdown editor        *)
(* (utils/markdown.ts): highlightCode, configureMarked and parseMarkdown,  *)
(* with the third-party parser (marked), sanitizer (DOMPurify) and grammar *)
(* engine (Prism) modelled by what the code relies on them to do.          *)
(*                                                                         *)
(* Strings are sequences of characters (one-character strings) where the   *)
(* code works on characters (escaping, prefixes), and HTML is a sequence   *)
(* of element nodes [tag, attrs, inner].                                   *)
(***************************************************************************)
EXTENDS Integers, Sequences, FiniteSets, TLC

VARIABLES
    env,        \* execution environment of the loaded module: window, origin
    markedOpts, \* process-wide defaults of the marked engine
    running,    \* the call site whose task holds the JS thread, or "none"
    call,       \* per call site: the parseMarkdown invocation in progress
    memo,       \* the caller's memoised last result (Preview's useMemo)
    hl,         \* one direct invocation of highlightCode
    fx,         \* one direct invocation of a metadata or rendering function
    ed,         \* the editor page: its persisted-content hook and localStorage
    ui          \* one widget of the page: resizable pane, file import or theme

vars == <<env, markedOpts, running, call, memo, hl, fx, ed, ui>>

(***************************************************************************)
(* Bounds                                                                  *)
(***************************************************************************)
MaxCodeLen == 2   \* characters in a code string handed to highlightCode
MaxDocLen == 1    \* blocks in a markdown document handed to parseMarkdown

(***************************************************************************)
(* Character strings                                                       *)
(***************************************************************************)
RECURSIVE ReplaceAll(_, _, _)
\* String.prototype.replace(/ch/g, rep) on a sequence of characters.
ReplaceAll(s, ch, rep) ==
    IF s = <<>> THEN <<>>
    ELSE (IF Head(s) = ch THEN rep ELSE <<Head(s)>>) \o ReplaceAll(Tail(s), ch, rep)

StartsWith(s, p) == Len(p) <= Len(s) /\ SubSeq(s, 1, Len(p)) = p

AMP == <<"&", "a", "m", "p", ";">>
LT == <<"&", "l", "t", ";">>
GT == <<"&", "g", "t", ";">>
QUOT == <<"&", "q", "u", "o", "t", ";">>
APOS == <<"&", "#", "3", "9", ";">>

\* the five chained replaces of the plain-text fallback
EscapeHtml(code) ==
    ReplaceAll(ReplaceAll(ReplaceAll(ReplaceAll(ReplaceAll(code,
        "&", AMP), "<", LT), ">", GT), "\"", QUOT), "'", APOS)

(***************************************************************************)
(* Syntax highlighter                                                      *)
(***************************************************************************)
\* the alias table of highlightCode; languageMap[lang] || lang
languageMap(lang) ==
    CASE lang = "js" -> "javascript"
      [] lang = "ts" -> "typescript"
      [] lang = "py" -> "python"
      [] lang = "sh" -> "bash"
      [] lang = "shell" -> "bash"
      [] lang = "yml" -> "yaml"
      [] lang = "md" -> "markdown"
      [] lang = "cs" -> "csharp"
      [] OTHER -> lang

\* What Prism.languages holds under a name: a grammar object ("grammar"), a
\* grammar object whose tokenizing raises ("throws"), one of the registry's
\* own helper functions such as extend ("function"), or nothing ("none").
EntryKinds == {"grammar", "throws", "function", "none"}

\* The registry after the imports of the module.
PrismLanguages ==
    [l \in {"javascript", "typescript", "python", "bash", "yaml", "markdown",
            "csharp", "text", "extend", "brainfuck-v2"} |->
        CASE l \in {"javascript", "typescript", "python", "bash", "yaml",
                    "markdown", "csharp", "text"} -> "grammar"
          [] l = "extend" -> "function"
          [] OTHER -> "none"]

\* Prism.highlight: the engine encodes & and < itself and wraps tokens in spans.
PrismHighlight(code) ==
    <<"<span class=\"token\">">>
        \o ReplaceAll(ReplaceAll(code, "&", AMP), "<", LT)
        \o <<"</span>">>

\* highlightCode whose fallback returns the code as it came
highlightCodeRawFallback(code, lang, languages) ==
    IF languages[languageMap(lang)] = "grammar" THEN PrismHighlight(code) ELSE code

\* highlightCode(code, lang) run against the registry `languages`.
highlightCode(code, lang, languages) ==
    LET normalizedLang == languageMap(lang)
        entry == languages[normalizedLang]
    IN  IF entry = "grammar"
        THEN PrismHighlight(code)
        ELSE \* unregistered, not an object, or Prism raised and was caught
             EscapeHtml(code)

(***************************************************************************)
(* HTML and markdown documents                                             *)
(***************************************************************************)
Node(tag, attrs, inner) == [tag |-> tag, attrs |-> attrs, inner |-> inner]

Blk(kind, lang, text) == [kind |-> kind, lang |-> lang, text |-> text]

Origins == {<<"http", "s://a.com">>, <<"http", "s://b.org">>}

Hrefs == {<<"/p">>, <<"http", "s://a.com", "/p">>, <<"http", "s://b.org", "/p">>}

FenceLangs == {"", "js", "brainfuck-v2"}

SampleCode == <<"<", "&", ">">>

\* One block of a markdown document:
\*   space      a whitespace character
\*   text       a paragraph "a"
\*   softbreak  a paragraph "a\nb" (a single newline inside it)
\*   strike     "~~a~~" (a GFM extension)
\*   script     raw HTML <script>alert(1)</script>
\*   img        raw HTML <img src=x onerror=alert(1)>
\*   deep       nesting so deep that the parser's recursion overflows
\*   code       a fenced code block with an optional language tag
\*   link       [a](href)
Blocks ==
    {Blk(k, "", <<>>) : k \in {"space", "text", "softbreak", "strike", "script", "img", "deep"}}
        \cup {Blk("code", l, SampleCode) : l \in FenceLangs}
        \cup {Blk("link", "", h) : h \in Hrefs}

Documents == UNION {[1..n -> Blocks] : n \in 0..MaxDocLen}

\* the blank check without the trim
IsEmpty(markdown) == markdown = <<>>

\* markdown.trim() is the empty string
IsBlank(markdown) == \A i \in 1..Len(markdown) : markdown[i].kind = "space"

Tri == {"undefined", "true", "false"}

BreaksGfm ==
    {<<"undefined", "undefined">>, <<"true", "true">>, <<"false", "true">>,
     <<"true", "false">>}

\* options?: MarkdownOptions; given = FALSE is the omitted argument
OptionsSet ==
    {[given |-> FALSE, breaks |-> "undefined", gfm |-> "undefined",
      sanitize |-> "undefined", highlight |-> "undefined"]}
        \cup {[given |-> TRUE, breaks |-> bg[1], gfm |-> bg[2], sanitize |-> sn,
               highlight |-> h] :
                  bg \in BreaksGfm, sn \in Tri, h \in {"undefined", "custom"}}

\* v ?? d
Nullish(v, d) == IF v = "undefined" THEN d ELSE v = "true"

Envs ==
    {[window |-> FALSE, origin |-> <<>>]}
        \cup {[window |-> TRUE, origin |-> o] : o \in Origins}

isBrowser(e) == e.window

getCurrentOrigin(e) == IF isBrowser(e) THEN e.origin ELSE <<>>

(***************************************************************************)
(* Renderer customization layer (the closures configureMarked installs)    *)
(***************************************************************************)
\* A highlight function supplied by the caller in options.highlight.
CustomHighlight(code, lang) == <<"<mark>">> \o code \o <<"</mark>">>

\* renderer.code of a renderer whose options.highlight is `highlight`;
\* returns [node, fn]: the markup and the highlighter it invoked.
renderer_code(code, language, highlight) ==
    LET lang == IF language = "" THEN "text" ELSE language
        fn == IF highlight = "custom" THEN "custom" ELSE "highlightCode"
        highlighted ==
            IF fn = "custom"
            THEN CustomHighlight(code, lang)
            ELSE highlightCode(code, lang, PrismLanguages)
    IN  [node |-> Node("pre", {<<"class", <<"language-", lang>>>>}, highlighted),
         fn |-> fn, lang |-> lang]

\* renderer.link
renderer_link(href, e) ==
    LET currentOrigin == getCurrentOrigin(e)
        isExternal ==
            /\ StartsWith(href, <<"http">>)
            /\ currentOrigin # <<>>
            /\ ~StartsWith(href, currentOrigin)
    IN  Node("a",
             {<<"href", href>>, <<"class", <<"link">>>>}
                 \cup (IF isExternal
                       THEN {<<"rel", <<"noopener noreferrer">>>>, <<"target", <<"_blank">>>>}
                       ELSE {}),
             <<"a">>)

(***************************************************************************)
(* The marked engine                                                       *)
(***************************************************************************)
\* marked's defaults when the module is loaded: its own renderer, no breaks, gfm
MarkedDefaults ==
    [renderer |-> [custom |-> FALSE, highlight |-> "undefined", owner |-> "marked"],
     breaks |-> FALSE, gfm |-> TRUE]

\* the message of the RangeError the engine's recursion raises
StackOverflow == "Maximum call stack size exceeded"

\* The markup of one block under the engine options o in environment e.
RenderBlock(b, o, e) ==
    CASE b.kind = "space" -> <<>>
      [] b.kind = "text" -> <<Node("p", {}, <<"a">>)>>
      [] b.kind = "softbreak" ->
            <<Node("p", {}, IF o.gfm /\ o.breaks THEN <<"a", "<br>", "b">>
                                                 ELSE <<"a", "\n", "b">>)>>
      [] b.kind = "strike" ->
            IF o.gfm THEN <<Node("del", {}, <<"a">>)>>
                     ELSE <<Node("p", {}, <<"~~a~~">>)>>
      [] b.kind = "script" -> <<Node("script", {}, <<"alert(1)">>)>>
      [] b.kind = "img" ->
            <<Node("img", {<<"src", <<"x">>>>, <<"onerror", <<"alert(1)">>>>}, <<>>)>>
      [] b.kind = "code" ->
            IF o.renderer.custom
            THEN <<renderer_code(b.text, b.lang, o.renderer.highlight).node>>
            ELSE <<Node("pre", {}, EscapeHtml(b.text))>>
      [] b.kind = "link" ->
            IF o.renderer.custom
            THEN <<renderer_link(b.text, e)>>
            ELSE <<Node("a", {<<"href", b.text>>}, <<"a">>)>>
      [] OTHER -> <<>>

RECURSIVE RenderBlocks(_, _, _)
RenderBlocks(markdown, o, e) ==
    IF markdown = <<>> THEN <<>>
    ELSE RenderBlock(Head(markdown), o, e) \o RenderBlocks(Tail(markdown), o, e)

\* marked.parse(markdown) under the engine options o:
\* [error, html, highlighters], error = "" when it returns.
marked_parse(markdown, o, e) ==
    IF \E i \in 1..Len(markdown) : markdown[i].kind = "deep"
    THEN [error |-> StackOverflow, html |-> <<>>, highlighters |-> {}]
    ELSE [error |-> "",
          html |-> RenderBlocks(markdown, o, e),
          highlighters |->
              IF o.renderer.custom
              THEN {[fn |-> renderer_code(markdown[i].text, markdown[i].lang,
                                          o.renderer.highlight).fn,
                     lang |-> renderer_code(markdown[i].text, markdown[i].lang,
                                            o.renderer.highlight).lang] :
                        i \in {j \in 1..Len(markdown) : markdown[j].kind = "code"}}
              ELSE {}]

\* configureMarked whose setOptions call leaves `breaks` out
configureMarkedKeepsBreaks(options, defaults, owner) ==
    [defaults EXCEPT
        !.renderer = [custom |-> TRUE, highlight |-> options.highlight, owner |-> owner],
        !.gfm = options.gfm]

\* configureMarked(options): a fresh renderer closed over options (owner names
\* the call that created the object), then marked.setOptions({renderer, breaks,
\* gfm}) merged into the engine defaults.
configureMarked(options, defaults, owner) ==
    [defaults EXCEPT
        !.renderer = [custom |-> TRUE, highlight |-> options.highlight, owner |-> owner],
        !.breaks = options.breaks,
        !.gfm = options.gfm]

(***************************************************************************)
(* Sanitizer                                                               *)
(***************************************************************************)
ALLOWED_TAGS ==
    {"h1", "h2", "h3", "h4", "h5", "h6",
     "p", "br", "strong", "em", "u", "s", "del", "ins",
     "ul", "ol", "li", "dl", "dt", "dd",
     "blockquote", "q", "cite",
     "code", "pre", "kbd", "samp", "var",
     "a", "img", "figure", "figcaption",
     "table", "thead", "tbody", "tfoot", "tr", "td", "th", "caption",
     "div", "span", "section", "article", "aside", "nav", "header", "footer",
     "hr", "details", "summary"}

ALLOWED_ATTR ==
    {"href", "title", "alt", "src", "width", "height",
     "class", "id", "lang", "dir",
     "target", "rel", "type", "start", "reversed",
     "open", "colspan", "rowspan", "scope"}

\* elements whose content DOMPurify drops with them even under KEEP_CONTENT
FORBID_CONTENTS == {"script", "style", "iframe", "noscript", "template"}

\* attribute names DOMPurify admits besides ALLOWED_ATTR: ALLOW_DATA_ATTR and
\* ALLOW_ARIA_ATTR are true unless the configuration turns them off
DATA_ATTR == {"data-x"}         \* /^data-[\-\w.\u00B7-\uFFFF]+$/
ARIA_ATTR == {"aria-label"}     \* /^aria-[\-\w]+$/

IsValidAttribute(name) == name \in DATA_ATTR \cup ARIA_ATTR \cup ALLOWED_ATTR

\* a pass that removes only one of the invalid attributes of an element
SanitizeNodeDroppingOneAttr(n) ==
    IF n.tag \in ALLOWED_TAGS \cup {"#text"}
    THEN LET invalid == {a \in n.attrs : ~IsValidAttribute(a[1])}
         IN <<Node(n.tag,
                   IF invalid = {} THEN n.attrs
                   ELSE n.attrs \ {CHOOSE a \in invalid : TRUE},
                   n.inner)>>
    ELSE IF n.tag \in FORBID_CONTENTS \/ n.inner = <<>>
         THEN <<>>
         ELSE <<Node("#text", {}, n.inner)>>

SanitizeNode(n) ==
    IF n.tag \in ALLOWED_TAGS \cup {"#text"}
    THEN <<Node(n.tag, {a \in n.attrs : IsValidAttribute(a[1])}, n.inner)>>
    ELSE IF n.tag \in FORBID_CONTENTS \/ n.inner = <<>>
         THEN <<>>
         ELSE <<Node("#text", {}, n.inner)>>

RECURSIVE Sanitize(_)
\* DOMPurify.sanitize(html, {ALLOWED_TAGS, ALLOWED_ATTR, KEEP_CONTENT: true})
Sanitize(html) ==
    IF html = <<>> THEN <<>>
    ELSE SanitizeNode(Head(html)) \o Sanitize(Tail(html))

(***************************************************************************)
(* parseMarkdown                                                           *)
(***************************************************************************)
Sites == {"preview", "other"}

OmittedOptions ==
    [given |-> FALSE, breaks |-> "undefined", gfm |-> "undefined",
     sanitize |-> "undefined", highlight |-> "undefined"]

Placeholder ==
    <<Node("p", {<<"class", <<"text-muted-foreground italic">>>>},
           <<"Start typing to see preview...">>)>>

ErrorMarkup(message) ==
    <<Node("p", {<<"class", <<"text-red-500">>>>},
           <<"Error parsing markdown: ", message>>)>>

\* marked.parse awaited: the task yields the thread after configuring
ParseIsAwaited == TRUE

\* marked.parse is called synchronously (no async option, no await): the
\* task that configured the engine keeps the thread until it has parsed.
ParseIsAsync == FALSE

\* the exception leaves parseMarkdown
Rethrow(message) == [threw |-> TRUE, result |-> <<>>]

\* catch (error): the error markup is the return value
Catch(message) == [threw |-> FALSE, result |-> ErrorMarkup(message)]

\* the options record parseMarkdown hands to configureMarked
Cfg(options) ==
    [breaks |-> Nullish(options.breaks, TRUE),
     gfm |-> Nullish(options.gfm, TRUE),
     sanitize |-> Nullish(options.sanitize, TRUE),
     highlight |-> "highlightCode"]

\* the sanitize test written as options?.sanitize === true
ShouldSanitizeOnlyTrue(options, e) == options.sanitize = "true" /\ isBrowser(e)

\* options?.sanitize !== false && isBrowser() && typeof DOMPurify !== 'undefined'
ShouldSanitize(options, e) == options.sanitize # "false" /\ isBrowser(e)

IdleCall ==
    [pc |-> "idle", markdown |-> <<>>, options |-> OmittedOptions, recall |-> FALSE,
     stale |-> FALSE, foreign |-> FALSE,
     configured |-> FALSE, installed |-> MarkedDefaults,
     parsed |-> FALSE, used |-> MarkedDefaults,
     highlighters |-> {}, html |-> <<>>, sanitized |-> FALSE, caught |-> "",
     threw |-> FALSE, result |-> <<>>]

NoMemo ==
    [set |-> FALSE, markdown |-> <<>>, options |-> OmittedOptions,
     env |-> [window |-> FALSE, origin |-> <<>>], result |-> <<>>]

\* no metadata function is being invoked
FxIdle == [pc |-> "idle", in |-> <<>>, out |-> <<>>]

\* the editor page is not part of the run
EdIdle == [pc |-> "idle"]

\* no widget of the page is part of the run
UiIdle == [pc |-> "idle"]

HlIdle == [pc |-> "idle", code |-> <<>>, lang |-> "", languages |-> PrismLanguages, out |-> <<>>]

Init ==
    /\ env \in Envs
    /\ markedOpts = MarkedDefaults
    /\ running = "none"
    /\ call = [s \in Sites |-> IdleCall]
    /\ memo = NoMemo
    /\ hl = HlIdle
    /\ fx = FxIdle
    /\ ed = EdIdle
    /\ ui = UiIdle

\* The module is evaluated afresh (a page load, or the server and then the
\* client evaluating the same bundle): the engine is back at its defaults.
LoadModule(e) ==
    /\ running = "none"
    /\ \A s \in Sites : call[s].pc = "idle"
    /\ e # env
    /\ env' = e
    /\ markedOpts' = MarkedDefaults
    /\ UNCHANGED <<running, call, memo, hl, fx, ed, ui>>

\* An earlier call left the engine configured otherwise than these options ask.
EngineIsStale(options) ==
    /\ markedOpts.renderer.custom
    /\ \/ markedOpts.breaks # Cfg(options).breaks
       \/ markedOpts.gfm # Cfg(options).gfm

\* entry of parseMarkdown(markdown, options), up to the blank check
Enter(s, markdown, options, recall) ==
    /\ running = "none"
    /\ call[s].pc = "idle"
    /\ running' = s
    /\ call' = [call EXCEPT ![s] =
            IF IsBlank(markdown)
            THEN [IdleCall EXCEPT !.pc = "done", !.markdown = markdown,
                                  !.options = options, !.recall = recall,
                                  !.result = Placeholder]
            ELSE [IdleCall EXCEPT !.pc = "try", !.markdown = markdown,
                                  !.options = options, !.recall = recall,
                                  !.stale = EngineIsStale(options),
                                  !.foreign = markedOpts.renderer.owner \notin {s, "marked"}]]
    /\ UNCHANGED <<env, markedOpts, hl, fx, ed, ui>>

\* the caller's input changed: it drops the result it had memoised
Discard ==
    /\ running = "none"
    /\ memo.set
    /\ memo' = NoMemo
    /\ UNCHANGED <<env, markedOpts, running, call, hl, fx, ed, ui>>

\* a call site calls parseMarkdown with new arguments
Invoke(s, markdown, options) ==
    /\ ~memo.set
    /\ Enter(s, markdown, options, FALSE)
    /\ UNCHANGED memo

\* a call site calls parseMarkdown again with the arguments of its last call
Recall(s) ==
    /\ memo.set
    /\ Enter(s, memo.markdown, memo.options, TRUE)
    /\ UNCHANGED memo

\* const markedInstance = configureMarked({...})
Configure(s) ==
    /\ running = s
    /\ call[s].pc = "try"
    /\ markedOpts' = configureMarked(Cfg(call[s].options), markedOpts, s)
    /\ call' = [call EXCEPT ![s].pc = "configured", ![s].configured = TRUE,
                            ![s].installed = markedOpts']
    /\ running' = IF ParseIsAsync THEN "none" ELSE s
    /\ UNCHANGED <<env, memo, hl, fx, ed, ui>>

\* const html = markedInstance.parse(markdown), and the catch clause
Parse(s) ==
    /\ running = (IF ParseIsAsync THEN "none" ELSE s)
    /\ call[s].pc = "configured"
    /\ LET r == marked_parse(call[s].markdown, markedOpts, env)
       IN  call' = [call EXCEPT ![s] =
               IF r.error # ""
               THEN [@ EXCEPT !.pc = "done", !.parsed = TRUE, !.used = markedOpts,
                              !.caught = r.error,
                              !.threw = Catch(r.error).threw,
                              !.result = Catch(r.error).result]
               ELSE [@ EXCEPT !.pc = "parsed", !.parsed = TRUE, !.used = markedOpts,
                              !.html = r.html, !.highlighters = r.highlighters]]
    /\ running' = s
    /\ UNCHANGED <<env, markedOpts, memo, hl, fx, ed, ui>>

\* the sanitize branch and the two return statements after the parse
Return(s) ==
    /\ running = s
    /\ call[s].pc = "parsed"
    /\ call' = [call EXCEPT ![s] =
            IF ShouldSanitize(call[s].options, env)
            THEN [@ EXCEPT !.pc = "done", !.sanitized = TRUE,
                           !.result = Sanitize(call[s].html)]
            ELSE [@ EXCEPT !.pc = "done", !.result = call[s].html]]
    /\ UNCHANGED <<env, markedOpts, running, memo, hl, fx, ed, ui>>

\* the caller takes the returned string and its task ends
TaskEnd(s) ==
    /\ running = s
    /\ call[s].pc = "done"
    /\ memo' = [set |-> TRUE, markdown |-> call[s].markdown,
                options |-> call[s].options, env |-> env,
                result |-> call[s].result]
    /\ call' = [call EXCEPT ![s] = IdleCall]
    /\ running' = "none"
    /\ UNCHANGED <<env, markedOpts, hl, fx, ed, ui>>

Next ==
    \/ /\ running = "none"
       /\ \E e \in Envs : LoadModule(e)
    \/ Discard
    \/ /\ running = "none"
       /\ ~memo.set
       /\ \E s \in Sites, m \in Documents, o \in OptionsSet : Invoke(s, m, o)
    \/ \E s \in Sites : Recall(s)
    \/ \E s \in Sites : Configure(s)
    \/ \E s \in Sites : Parse(s)
    \/ \E s \in Sites : Return(s)
    \/ \E s \in Sites : TaskEnd(s)

Spec == Init /\ [][Next]_vars

(***************************************************************************)
(* highlightCode called directly, over bounded codes, tags and registries  *)
(***************************************************************************)
CodeChars == {"a", "&", "<", ">", "\"", "'"}

Codes == UNION {[1..n -> CodeChars] : n \in 0..MaxCodeLen}

LangTags == {"js", "javascript", "text", "brainfuck-v2", "extend"}

\* the registry of the module, with the entry of one language varied
Registries ==
    {[PrismLanguages EXCEPT ![languageMap(l)] = k] : l \in LangTags, k \in EntryKinds}

HLInit ==
    /\ env = [window |-> TRUE, origin |-> <<"http", "s://a.com">>]
    /\ markedOpts = MarkedDefaults
    /\ running = "none"
    /\ call = [s \in Sites |-> IdleCall]
    /\ memo = NoMemo
    /\ hl \in {[pc |-> "ready", code |-> c, lang |-> l, languages |-> reg, out |-> <<>>] :
                  c \in Codes, l \in LangTags, reg \in Registries}
    /\ fx = FxIdle
    /\ ed = EdIdle
    /\ ui = UiIdle

HighlightCall ==
    /\ hl.pc = "ready"
    /\ hl' = [hl EXCEPT !.pc = "done",
                        !.out = highlightCode(hl.code, hl.lang, hl.languages)]
    /\ UNCHANGED <<env, markedOpts, running, call, memo, fx, ed, ui>>

HLNext == HighlightCall

SpecHL == HLInit /\ [][HLNext]_vars

(***************************************************************************)
(* Properties of parseMarkdown                                             *)
(***************************************************************************)
Done(s) == call[s].pc = "done"

\* the call went through the parser and the parser returned
Rendered(s) == call[s].parsed /\ call[s].caught = ""

WhitespaceOnly(markdown) ==
    \A i \in 1..Len(markdown) : markdown[i] = Blk("space", "", <<>>)

EventHandlerAttrs == {"onerror", "onclick", "onload"}

ContainsScriptTag(html) == \E i \in 1..Len(html) : html[i].tag = "script"

ContainsEventHandler(html) ==
    \E i \in 1..Len(html) : \E a \in html[i].attrs : a[1] \in EventHandlerAttrs

\* what parseMarkdown(markdown, options) returns from site s when it is the
\* only call the freshly loaded module ever serves, in environment e
RunAlone(markdown, options, e, s) ==
    LET r == marked_parse(markdown,
                          configureMarked(Cfg(options), MarkedDefaults, s), e)
    IN  IF WhitespaceOnly(markdown) THEN Placeholder
        ELSE IF r.error # "" THEN ErrorMarkup(r.error)
        ELSE IF options.sanitize # "false" /\ e.window THEN Sanitize(r.html)
        ELSE r.html

\* C1: with sanitize:true, in every environment, the returned markup holds
\* no script element and no on<name>= event-handler attribute.
C1_SanitizeTrueHasNoScript ==
    \A s \in Sites :
        (Done(s) /\ call[s].options.sanitize = "true")
            => /\ ~ContainsScriptTag(call[s].result)
               /\ ~ContainsEventHandler(call[s].result)

\* C2: when sanitizing was asked for (sanitize is not false) and cannot run
\* because there is no window, the value returned is not the parser's
\* unsanitized HTML handed back as if it were the result.
C2_SkippedSanitizingIsExplicit ==
    \A s \in Sites :
        (Done(s) /\ Rendered(s) /\ call[s].options.sanitize # "false" /\ ~env.window)
            => call[s].threw \/ call[s].result # call[s].html

\* C3: for non-blank markdown in an environment with a window, once the
\* parser has returned its HTML, the call returns the sanitizer's output for
\* that HTML when options are omitted or sanitize is undefined or true, and
\* returns that HTML itself, the sanitizer never invoked, exactly when
\* sanitize is false.
C3_SanitizeUnlessFalse ==
    \A s \in Sites :
        (Done(s) /\ ~WhitespaceOnly(call[s].markdown) /\ env.window /\ Rendered(s))
            => /\ call[s].html =
                     marked_parse(call[s].markdown,
                                  configureMarked(Cfg(call[s].options), MarkedDefaults, s),
                                  env).html
               /\ call[s].sanitized <=> (call[s].options.sanitize # "false")
               /\ call[s].options.sanitize # "false"
                     => call[s].result = Sanitize(call[s].html)
               /\ call[s].options.sanitize = "false"
                     => call[s].result = call[s].html

\* a sanitized return with sanitize left undefined, where sanitizing changed the HTML
C3_Witness ==
    \E s \in Sites :
        /\ Done(s) /\ Rendered(s) /\ env.window
        /\ call[s].options.given /\ call[s].options.sanitize = "undefined"
        /\ call[s].sanitized
        /\ call[s].result # call[s].html

\* C4: for markdown that is empty or whitespace only, whatever the options,
\* the call returns the fixed placeholder paragraph and has neither
\* configured the engine, nor parsed, nor sanitized.
C4_BlankGivesPlaceholder ==
    \A s \in Sites :
        (call[s].pc # "idle" /\ WhitespaceOnly(call[s].markdown))
            => /\ Done(s)
               /\ ~call[s].threw
               /\ call[s].result =
                     <<Node("p", {<<"class", <<"text-muted-foreground italic">>>>},
                            <<"Start typing to see preview...">>)>>
               /\ ~call[s].configured /\ ~call[s].parsed /\ ~call[s].sanitized

\* a whitespace-only document returned with sanitize:false while the engine
\* still holds what an earlier call installed
C4_Witness ==
    \E s \in Sites :
        /\ Done(s)
        /\ Len(call[s].markdown) = 1 /\ WhitespaceOnly(call[s].markdown)
        /\ call[s].options.sanitize = "false"
        /\ call[s].result = Placeholder
        /\ markedOpts.renderer.custom

\* C5: every call returns a string and never throws; an exception raised
\* inside it is caught and the return value is the error paragraph that
\* carries the exception's message.
C5_ExceptionsBecomeErrorMarkup ==
    \A s \in Sites :
        Done(s)
            => /\ ~call[s].threw
               /\ call[s].caught # ""
                     => /\ Len(call[s].result) = 1
                        /\ call[s].result[1].tag = "p"
                        /\ <<"class", <<"text-red-500">>>> \in call[s].result[1].attrs
                        /\ \E j \in 1..Len(call[s].result[1].inner) :
                               call[s].result[1].inner[j] = call[s].caught

\* the parser overflowed its stack and the call returned
C5_Witness ==
    \E s \in Sites : Done(s) /\ call[s].caught = StackOverflow

\* C6: a call with the arguments of the previous call returns what the
\* previous call returned, whatever the window and the page origin are.
C6_PureInArguments ==
    \A s \in Sites :
        (Done(s) /\ call[s].recall) => call[s].result = memo.result

\* C7: no call parses with a configuration another call installed: the
\* engine options in force when a call parses are the ones that call's own
\* configure step installed, with the renderer that call created, and what
\* the call returns is what it returns when it is the only call.
C7_ConfigureThenParseIsAtomic ==
    \A s \in Sites :
        /\ call[s].parsed
              => /\ call[s].used = call[s].installed
                 /\ call[s].used.renderer.owner = s
        /\ Done(s) => call[s].result =
                          RunAlone(call[s].markdown, call[s].options, env, s)

\* a call that parsed and returned although the engine it found had been
\* configured otherwise by the other call site
C7_Witness ==
    \E s \in Sites :
        /\ Done(s) /\ Rendered(s)
        /\ call[s].foreign /\ call[s].stale
        /\ call[s].markdown = <<Blk("softbreak", "", <<>>)>>

\* C8: whatever earlier calls configured, the breaks and gfm settings and
\* the renderer a call parses with are those derived from its own options,
\* breaks and gfm defaulting to true, and nothing of an earlier
\* configuration shows in what the call returns.
C8_NoCarryOver ==
    \A s \in Sites :
        /\ call[s].parsed
              => /\ call[s].used.breaks = (call[s].options.breaks # "false")
                 /\ call[s].used.gfm = (call[s].options.gfm # "false")
                 /\ call[s].used.renderer.custom
        /\ (Done(s) /\ call[s].stale)
              => call[s].result =
                    RunAlone(call[s].markdown, call[s].options, env, s)

\* a call with breaks and gfm left undefined that found the engine
\* configured with other settings and rendered the line break
C8_Witness ==
    \E s \in Sites :
        /\ Done(s) /\ Rendered(s) /\ call[s].stale
        /\ call[s].options.given
        /\ call[s].options.breaks = "undefined" /\ call[s].options.gfm = "undefined"
        /\ \E i \in 1..Len(call[s].result) :
               call[s].result[i].inner = <<"a", "<br>", "b">>

\* C9: when the caller supplies options.highlight, every fenced code block
\* is highlighted by that function; the built-in highlighter runs only
\* when options.highlight is absent.
C9_SuppliedHighlighterIsUsed ==
    \A s \in Sites :
        \A h \in call[s].highlighters :
            /\ call[s].options.highlight = "custom" => h.fn = "custom"
            /\ h.fn = "highlightCode" => call[s].options.highlight = "undefined"

(***************************************************************************)
(* Properties of highlightCode                                             *)
(***************************************************************************)
Entity(c) ==
    CASE c = "&" -> AMP
      [] c = "<" -> LT
      [] c = ">" -> GT
      [] c = "\"" -> QUOT
      [] c = "'" -> APOS
      [] OTHER -> <<c>>

RECURSIVE Escaped(_)
\* the code with each of & < > " ' written as its entity
Escaped(code) ==
    IF code = <<>> THEN <<>> ELSE Entity(Head(code)) \o Escaped(Tail(code))

\* the characters of out that are markup when left as they are
Unescaped(out) == {i \in 1..Len(out) : out[i] \in {"<", ">", "\"", "'"}}

MaxPieces == 4    \* pieces in a markdown text handed to a metadata function

\* the grave accent, which a TLA+ string cannot hold, written as an apostrophe
BACKTICK == "'"

Letters ==
    {"A", "D", "M", "S",
     "a", "b", "c", "d", "e", "f", "g", "h", "i", "j", "k", "l", "m",
     "n", "o", "p", "q", "r", "s", "t", "u", "v", "w", "x", "y", "z"}
Digits == {"1"}
Whitespace == {" ", "\n"}                          \* \s
Alphabet ==
    Letters \cup Digits \cup Whitespace
        \cup {"#", "-", "_", "*", BACKTICK, "[", "]", "(", ")", "!", ">", "+", ".",
              "<", "=", "/", "&", ";", "\""}
Dot == Alphabet \ {"\n"}                            \* .
IsWord(c) == c \in Letters \cup Digits \cup {"_"}   \* \w

RECURSIVE Flatten(_)
Flatten(pieces) ==
    IF pieces = <<>> THEN <<>> ELSE Head(pieces) \o Flatten(Tail(pieces))

RECURSIVE SeqsUpTo(_, _)
SeqsUpTo(S, n) ==
    IF n = 0 THEN {<<>>}
    ELSE LET shorter == SeqsUpTo(S, n - 1)
         IN shorter \cup {Append(q, x) : q \in {r \in shorter : Len(r) = n - 1}, x \in S}

RECURSIVE RunLen(_, _, _)
\* length of the longest run of characters of S that starts at position i
RunLen(s, i, S) ==
    IF i <= Len(s) /\ s[i] \in S THEN 1 + RunLen(s, i + 1, S) ELSE 0

RECURSIVE TrimStart(_)
TrimStart(s) ==
    IF s # <<>> /\ Head(s) \in Whitespace THEN TrimStart(Tail(s)) ELSE s

RECURSIVE TrimEnd(_)
TrimEnd(s) ==
    IF s # <<>> /\ s[Len(s)] \in Whitespace
    THEN TrimEnd(SubSeq(s, 1, Len(s) - 1)) ELSE s

\* String.prototype.trim
Trim(s) == TrimEnd(TrimStart(s))

ToLowerChar(c) ==
    CASE c = "A" -> "a"
      [] c = "D" -> "d"
      [] c = "M" -> "m"
      [] c = "S" -> "s"
      [] OTHER -> c

\* String.prototype.toLowerCase
ToLowerCase(s) == [i \in 1..Len(s) |-> ToLowerChar(s[i])]

RECURSIVE ReplaceNonWordRuns(_)
\* .replace(/[^\w]+/g, '-')
ReplaceNonWordRuns(s) ==
    IF s = <<>> THEN <<>>
    ELSE IF IsWord(Head(s)) THEN <<Head(s)>> \o ReplaceNonWordRuns(Tail(s))
    ELSE LET n == RunLen(s, 1, Alphabet \ {c \in Alphabet : IsWord(c)})
         IN <<"-">> \o ReplaceNonWordRuns(SubSeq(s, n + 1, Len(s)))

\* a hyphen for every non-word character, as /[^\w]/g would give
headingIdPerCharacter(text) ==
    [i \in 1..Len(text) |->
        IF IsWord(ToLowerChar(text[i])) THEN ToLowerChar(text[i]) ELSE "-"]

\* text.toLowerCase().replace(/[^\w]+/g, '-')
headingId(text) == ReplaceNonWordRuns(ToLowerCase(text))

Heading(level, text) == [level |-> level, text |-> text, id |-> headingId(text)]

\* ^ under the m flag
AtLineStart(s, i) == i = 1 \/ s[i - 1] = "\n"

\* One attempt of /^(#{1,6})\s+(.+)$/gm at position i.  \s+ is greedy and
\* gives characters back until (.+) can start on a character that is not a
\* line terminator; (.+) then runs to the end of that line, where $ holds.
headingRegex(s, i) ==
    LET h == RunLen(s, i, {"#"})
        w == RunLen(s, i + h, Whitespace)
        gaps == {t \in 1..w : i + h + t <= Len(s) /\ s[i + h + t] \in Dot}
        t == CHOOSE x \in gaps : \A y \in gaps : y <= x
        from == i + h + t
        to == from + RunLen(s, from, Dot) - 1
    IN IF AtLineStart(s, i) /\ h >= 1 /\ h <= 6 /\ gaps # {}
       THEN [matched |-> TRUE, level |-> h, text |-> SubSeq(s, from, to), lastIndex |-> to + 1]
       ELSE [matched |-> FALSE, level |-> 0, text |-> <<>>, lastIndex |-> i]

RECURSIVE ExecLoop(_, _)
\* while ((match = headingRegex.exec(markdown)) !== null) { ... }
ExecLoop(s, i) ==
    IF i > Len(s) THEN <<>>
    ELSE LET m == headingRegex(s, i)
         IN IF m.matched
            THEN <<Heading(m.level, Trim(m.text))>> \o ExecLoop(s, m.lastIndex)
            ELSE ExecLoop(s, i + 1)

extractHeadings(markdown) == ExecLoop(markdown, 1)

HeadingPieces ==
    {<<"#">>, <<"#", "#", "#", "#", "#", "#">>, <<" ">>, <<"\n">>, <<"A">>, <<"-">>,
     <<"#", " ", "A">>, <<"#", " ", "-", "-">>}

HeadingTexts == {Flatten(d) : d \in SeqsUpTo(HeadingPieces, MaxPieces)}

\* the parts of the state a direct call of a pure function leaves alone
PipelineAtRest ==
    /\ env = [window |-> TRUE, origin |-> <<"http", "s://a.com">>]
    /\ markedOpts = MarkedDefaults
    /\ running = "none"
    /\ call = [s \in Sites |-> IdleCall]
    /\ memo = NoMemo
    /\ hl = HlIdle

EHInit ==
    /\ PipelineAtRest
    /\ fx \in {[pc |-> "ready", in |-> t, out |-> <<>>] : t \in HeadingTexts}
    /\ ed = EdIdle
    /\ ui = UiIdle

ExtractHeadingsCall ==
    /\ fx.pc = "ready"
    /\ fx' = [fx EXCEPT !.pc = "done", !.out = extractHeadings(fx.in)]
    /\ UNCHANGED <<env, markedOpts, running, call, memo, hl, ed, ui>>

EHNext == ExtractHeadingsCall

SpecEH == EHInit /\ [][EHNext]_vars

RECURSIVE Lines(_)
\* the lines of a text, without their terminators
Lines(s) ==
    LET n == RunLen(s, 1, Dot)
    IN IF n = Len(s) THEN <<s>>
       ELSE <<SubSeq(s, 1, n)>> \o Lines(SubSeq(s, n + 2, Len(s)))

\* a line made of 1 to 6 '#', then whitespace, then text on that line
IsHeadingLine(line) ==
    LET h == RunLen(line, 1, {"#"})
    IN h >= 1 /\ h <= 6 /\ Len(line) >= h + 2 /\ line[h + 1] \in Whitespace

HeadingOfLine(line) ==
    LET h == RunLen(line, 1, {"#"})
    IN Heading(h, Trim(SubSeq(line, h + 1, Len(line))))

RECURSIVE HeadingsOfLines(_)
HeadingsOfLines(ls) ==
    IF ls = <<>> THEN <<>>
    ELSE (IF IsHeadingLine(Head(ls)) THEN <<HeadingOfLine(Head(ls))>> ELSE <<>>)
             \o HeadingsOfLines(Tail(ls))

\* C11: extractHeadings returns exactly one Heading per line that consists
\* of 1 to 6 '#' at the start of the line, then whitespace, then text on that
\* same line, in document order, the level being the number of '#' and the
\* text the trimmed remainder; no other line yields a heading.
C11_OneHeadingPerHeadingLine ==
    fx.pc = "done" => fx.out = HeadingsOfLines(Lines(fx.in))

RECURSIVE RunsOf(_)
\* a text cut into its maximal runs of word and of non-word characters
RunsOf(t) ==
    IF t = <<>> THEN <<>>
    ELSE LET n == IF IsWord(Head(t))
                  THEN RunLen(t, 1, {c \in Alphabet : IsWord(c)})
                  ELSE RunLen(t, 1, {c \in Alphabet : ~IsWord(c)})
         IN <<SubSeq(t, 1, n)>> \o RunsOf(SubSeq(t, n + 1, Len(t)))

\* every word run kept, every non-word run turned into one hyphen
HyphenatedRuns(t) ==
    LET runs == RunsOf(t)
    IN Flatten([i \in 1..Len(runs) |->
                   IF IsWord(runs[i][1]) THEN runs[i] ELSE <<"-">>])

NoAdjacentHyphens(id) ==
    \A i \in 1..(Len(id) - 1) : ~(id[i] = "-" /\ id[i + 1] = "-")

HasNonWordRunOfTwo(t) ==
    \E i \in 1..(Len(t) - 1) : ~IsWord(t[i]) /\ ~IsWord(t[i + 1])

\* C12: the id of every extracted heading is its text in lower case with
\* each maximal run of non-word characters replaced by exactly one hyphen,
\* so it never holds two adjacent hyphens; it depends on the text alone, so
\* headings with identical text get identical ids.
C12_IdIsHyphenatedLowerCaseText ==
    fx.pc = "done" =>
        /\ \A i \in 1..Len(fx.out) :
              /\ fx.out[i].id = HyphenatedRuns(ToLowerCase(fx.out[i].text))
              /\ NoAdjacentHyphens(fx.out[i].id)
        /\ \A i, j \in 1..Len(fx.out) :
              fx.out[i].text = fx.out[j].text => fx.out[i].id = fx.out[j].id

\* two headings with the same text, which holds two adjacent non-word
\* characters, both got the same id with a single hyphen
C12_Witness ==
    /\ fx.pc = "done"
    /\ \E i, j \in 1..Len(fx.out) :
          /\ i # j
          /\ fx.out[i].text = fx.out[j].text
          /\ HasNonWordRunOfTwo(fx.out[i].text)
          /\ fx.out[i].id = <<"-">>
          /\ fx.out[j].id = <<"-">>

(***************************************************************************)
(* Metadata extractor: countWords                                          *)
(*                                                                         *)
(* Each String.prototype.replace(/.../g, ...) of the chain is one pass of  *)
(* ReplaceG over the text: at every position the regular expression is     *)
(* tried once, by the rules of a backtracking matcher (greedy runs, lazy   *)
(* groups that stop at the first place where the rest matches).            *)
(***************************************************************************)
MatchAt(s, i, p) == i + Len(p) - 1 <= Len(s) /\ SubSeq(s, i, i + Len(p) - 1) = p

Least(S) == IF S = {} THEN 0 ELSE CHOOSE x \in S : \A y \in S : x <= y

\* A lazy group that starts at position a and takes at least min characters
\* (any character if multiline, else any but a line terminator), followed by
\* the literal close: the position of that close, or 0.
LazyEnd(s, a, min, close, multiline) ==
    Least({j \in (a + min)..Len(s) :
              /\ MatchAt(s, j, close)
              /\ \A x \in a..(j - 1) : multiline \/ s[x] \in Dot})

NoMatch == [end |-> 0, out |-> <<>>]

\* open (group) close, replaced by the group if keep, else by nothing
Delimited(s, i, open, close, min, multiline, keep) ==
    LET a == i + Len(open)
        j == IF MatchAt(s, i, open) THEN LazyEnd(s, a, min, close, multiline) ELSE 0
    IN IF j > 0
       THEN [end |-> j + Len(close), out |-> IF keep THEN SubSeq(s, a, j - 1) ELSE <<>>]
       ELSE NoMatch

\* open (group) ](.+?), replaced by the group if keep, else by nothing
Bracketed(s, i, open, min, keep) ==
    LET a == i + Len(open)
        j == IF MatchAt(s, i, open)
             THEN Least({m \in (a + min)..Len(s) :
                            /\ MatchAt(s, m, <<"]", "(">>)
                            /\ \A x \in a..(m - 1) : s[x] \in Dot
                            /\ LazyEnd(s, m + 2, 1, <<")">>, FALSE) > 0})
             ELSE 0
    IN IF j > 0
       THEN [end |-> LazyEnd(s, j + 2, 1, <<")">>, FALSE) + 1,
             out |-> IF keep THEN SubSeq(s, a, j - 1) ELSE <<>>]
       ELSE NoMatch

\* a greedy run of lead characters (at most max of them, the run not being
\* longer), then the literal dot if any, then \s+, replaced by nothing
Marker(s, i, lead, max, dot) ==
    LET n == RunLen(s, i, lead)
        a == i + n + Len(dot)
        w == RunLen(s, a, Whitespace)
    IN IF n >= 1 /\ n <= max /\ MatchAt(s, i + n, dot) /\ w >= 1
       THEN [end |-> a + w, out |-> <<>>]
       ELSE NoMatch

\* one attempt of a regular expression of countWords at position i
MatchRx(rx, s, i) ==
    CASE rx = "headings" -> Marker(s, i, {"#"}, 6, <<>>)
      [] rx = "bold" -> Delimited(s, i, <<"*", "*">>, <<"*", "*">>, 1, FALSE, TRUE)
      [] rx = "italic" -> Delimited(s, i, <<"*">>, <<"*">>, 1, FALSE, TRUE)
      [] rx = "inline code" -> Delimited(s, i, <<BACKTICK>>, <<BACKTICK>>, 1, FALSE, TRUE)
      [] rx = "code blocks" ->
            Delimited(s, i, <<BACKTICK, BACKTICK, BACKTICK>>,
                      <<BACKTICK, BACKTICK, BACKTICK>>, 0, TRUE, FALSE)
      [] rx = "links" -> Bracketed(s, i, <<"[">>, 1, TRUE)
      [] rx = "images" -> Bracketed(s, i, <<"!", "[">>, 0, FALSE)
      [] rx = "blockquotes" -> Marker(s, i, {">"}, 1, <<>>)
      [] rx = "list markers" -> Marker(s, i, {"-", "*", "+"}, 1, <<>>)
      [] rx = "ordered list markers" -> Marker(s, i, Digits, Len(s), <<".">>)

RECURSIVE ReplaceG(_, _, _)
\* String.prototype.replace with a g-flagged regular expression
\* (the text up to the first position from i on where the expression
\* matches is copied, the match replaced, and the search resumes after it)
ReplaceG(rx, s, i) ==
    IF i > Len(s) THEN <<>>
    ELSE LET starts == {j \in i..Len(s) : MatchRx(rx, s, j).end > 0}
         IN IF starts = {} THEN SubSeq(s, i, Len(s))
            ELSE LET j == CHOOSE x \in starts : \A y \in starts : x <= y
                     m == MatchRx(rx, s, j)
                 IN SubSeq(s, i, j - 1) \o m.out \o ReplaceG(rx, s, m.end)

\* the order of the replaces in countWords
StripOrder ==
    <<"headings", "bold", "italic", "inline code", "code blocks", "links",
      "images", "blockquotes", "list markers", "ordered list markers">>

RECURSIVE StripFrom(_, _)
StripFrom(s, k) ==
    IF k > Len(StripOrder) THEN s
    ELSE StripFrom(ReplaceG(StripOrder[k], s, 1), k + 1)

\* .replace(/\n/g, ' ')
NewlinesToSpaces(s) == [i \in 1..Len(s) |-> IF s[i] = "\n" THEN " " ELSE s[i]]

\* plainText.split(/\s+/).length for a trimmed, non-empty plainText
SplitLength(s) ==
    Cardinality({i \in 1..Len(s) :
                    s[i] \notin Whitespace /\ (i = 1 \/ s[i - 1] \in Whitespace)})

countWords(markdown) ==
    LET plainText == Trim(NewlinesToSpaces(StripFrom(markdown, 1)))
    IN IF plainText # <<>> THEN SplitLength(plainText) ELSE 0

FenceOpen == <<BACKTICK, BACKTICK, BACKTICK, "\n">>
FenceClose == <<"\n", BACKTICK, BACKTICK, BACKTICK>>
ImageMd == <<"!", "[", "a", "]", "(", "u", ")">>      \* ![a](u)
LinkMd == <<"[", "a", "]", "(", "u", ")">>            \* [a](u)

WordPieces ==
    {FenceOpen, FenceClose, ImageMd, LinkMd,
     <<"a">>, <<" ">>, <<"\n">>, <<"-">>, <<"*", "*", "a", "*", "*">>}

WordTexts == {Flatten(d) : d \in SeqsUpTo(WordPieces, MaxPieces)}

CWInit ==
    /\ PipelineAtRest
    /\ fx \in {[pc |-> "ready", in |-> t, out |-> 0] : t \in WordTexts}
    /\ ed = EdIdle
    /\ ui = UiIdle

CountWordsCall ==
    /\ fx.pc = "ready"
    /\ fx' = [fx EXCEPT !.pc = "done", !.out = countWords(fx.in)]
    /\ UNCHANGED <<env, markedOpts, running, call, memo, hl, ed, ui>>

CWNext == CountWordsCall

SpecCW == CWInit /\ [][CWNext]_vars

\* the whitespace-delimited tokens of a text
Tokens(s) ==
    Cardinality({i \in 1..Len(s) :
                    s[i] \notin Whitespace /\ (i = 1 \/ s[i - 1] \in Whitespace)})

\* the text is one fenced code block: an opening fence line, content without
\* a backtick, a closing fence line
IsOneFencedBlock(s) ==
    /\ Len(s) >= Len(FenceOpen) + Len(FenceClose)
    /\ SubSeq(s, 1, Len(FenceOpen)) = FenceOpen
    /\ SubSeq(s, Len(s) - Len(FenceClose) + 1, Len(s)) = FenceClose
    /\ \A i \in (Len(FenceOpen) + 1)..(Len(s) - Len(FenceClose)) : s[i] # BACKTICK

\* C13: countWords drops the entire content of every fenced code block:
\* words that appear only between an opening fence and its closing fence
\* contribute nothing, so a text that is one fenced block has 0 words.
C13_FencedContentCountsZero ==
    (fx.pc = "done" /\ IsOneFencedBlock(fx.in)) => fx.out = 0

\* C14: countWords drops image syntax entirely (neither the alt text nor the
\* URL is counted), whereas a link keeps its text and drops its URL.
C14_ImageCountsZeroLinkCountsText ==
    fx.pc = "done" =>
        /\ fx.in = ImageMd => fx.out = 0
        /\ fx.in = ImageMd \o <<" ", "a">> => fx.out = 1
        /\ fx.in = LinkMd => fx.out = 1

\* a text of letters, whitespace and hyphens in which no line begins with a
\* hyphen: it holds no markdown markup at all
IsPlainProse(s) ==
    /\ \A i \in 1..Len(s) : s[i] \in Letters \cup Whitespace \cup {"-"}
    /\ \A i \in 1..Len(s) :
          s[i] = "-" => \E j \in 1..(i - 1) :
                           /\ s[j] \in Letters \cup {"-"}
                           /\ \A x \in j..(i - 1) : s[x] # "\n"

\* C15: countWords returns the number of whitespace-delimited tokens that
\* remain after the markup is stripped, punctuation-only tokens included,
\* and stripping never removes or merges words that are not markup: a text
\* without any markup has as many words as it has tokens.
C15_ProseCountsItsTokens ==
    (fx.pc = "done" /\ IsPlainProse(fx.in)) => fx.out = Tokens(fx.in)

(***************************************************************************)
(* Metadata extractor: estimateReadingTime                                 *)
(***************************************************************************)
MaxWordCount == 450   \* largest wordCount handed to estimateReadingTime
MaxWpm == 3           \* largest explicit wpm, besides the default itself

DefaultWpm == 200     \* wpm: number = 200

\* Math.ceil(a / b) for integers a >= 0, b >= 1
MathCeilOfQuotient(a, b) == IF a % b = 0 THEN a \div b ELSE (a \div b) + 1

\* Math.floor in place of Math.ceil
estimateReadingTimeRoundingDown(wordCount, wpm) ==
    wordCount \div (IF wpm.given THEN wpm.value ELSE DefaultWpm)

estimateReadingTime(wordCount, wpm) ==
    MathCeilOfQuotient(wordCount, IF wpm.given THEN wpm.value ELSE DefaultWpm)

WordCounts == 0..MaxWordCount

\* the argument omitted, as in Preview's metadata
OmittedWpm == [given |-> FALSE, value |-> 0]

WpmArguments ==
    {OmittedWpm} \cup {[given |-> TRUE, value |-> w] : w \in {DefaultWpm} \cup 1..MaxWpm}

RTInit ==
    /\ PipelineAtRest
    /\ fx \in {[pc |-> "ready", in |-> [wordCount |-> n, wpm |-> w], out |-> 0] :
                  n \in WordCounts, w \in WpmArguments}
    /\ ed = EdIdle
    /\ ui = UiIdle

EstimateReadingTimeCall ==
    /\ fx.pc = "ready"
    /\ fx' = [fx EXCEPT !.pc = "done",
                        !.out = estimateReadingTime(fx.in.wordCount, fx.in.wpm)]
    /\ UNCHANGED <<env, markedOpts, running, call, memo, hl, ed, ui>>

RTNext == EstimateReadingTimeCall

SpecRT == RTInit /\ [][RTNext]_vars

\* C16: for an integer wordCount >= 0 and wordsPerMinute >= 1 (200 when the
\* argument is omitted) estimateReadingTime returns the ceiling of
\* wordCount / wordsPerMinute: the least integer r with r * wpm >= wordCount.
\* It is never negative and is 0 exactly when wordCount is 0; (450, 200)
\* gives 3.
C16_ReadingTimeIsCeiling ==
    fx.pc = "done" =>
        LET n == fx.in.wordCount
            w == IF fx.in.wpm.given THEN fx.in.wpm.value ELSE 200
        IN /\ fx.out * w >= n
           /\ (fx.out - 1) * w < n
           /\ fx.out >= 0
           /\ fx.out = 0 <=> n = 0
           /\ (n = 450 /\ w = 200) => fx.out = 3

\* 450 words at the omitted (default) rate took 3 minutes
C16_Witness ==
    /\ fx.pc = "done"
    /\ fx.in.wordCount = 450
    /\ fx.in.wpm = OmittedWpm
    /\ fx.out = 3

(***************************************************************************)
(* The link renderer on its own                                            *)
(*                                                                         *)
(* An href is a sequence of tokens whose concatenation is the URL, cut so  *)
(* that one href is a prefix of another as strings exactly when it is one  *)
(* as token sequences: "http" "s://a.com" ".evil.com" "/p" is              *)
(* https://a.com.evil.com/p.                                               *)
(***************************************************************************)
Schemes == {"http", "ftp"}            \* https://... and ftps://...
Hosts == {"s://a.com", "s://b.org"}

LinkHrefs ==
    {<<"/p">>, <<"http", "/p">>, <<"ftp", "/p">>}
        \cup {<<sc, h>> \o suffix \o path :
                 sc \in Schemes, h \in Hosts,
                 suffix \in {<<>>, <<".evil.com">>}, path \in {<<>>, <<"/p">>}}

LinkInit ==
    /\ PipelineAtRest
    /\ fx \in {[pc |-> "ready", in |-> [href |-> h, env |-> e], out |-> <<>>] :
                  h \in LinkHrefs, e \in Envs}
    /\ ed = EdIdle
    /\ ui = UiIdle

RendererLinkCall ==
    /\ fx.pc = "ready"
    /\ fx' = [fx EXCEPT !.pc = "done", !.out = <<renderer_link(fx.in.href, fx.in.env)>>]
    /\ UNCHANGED <<env, markedOpts, running, call, memo, hl, ed, ui>>

LinkNext == RendererLinkCall

SpecLink == LinkInit /\ [][LinkNext]_vars

\* scheme://host...: an absolute URL; anything else is relative to the page
IsAbsoluteUrl(href) ==
    Len(href) >= 2 /\ href[1] \in Schemes /\ href[2] \in Hosts

\* scheme and host of an absolute URL: everything before its path
UrlOrigin(href) ==
    SubSeq(href, 1, Len(href) - (IF href[Len(href)] = "/p" THEN 1 ELSE 0))

HasAttr(n, name, value) == <<name, <<value>>>> \in n.attrs

HasAttrNamed(n, name) == \E a \in n.attrs : a[1] = name

\* C17: when a current page origin is available, the link renderer emits
\* target="_blank" and rel="noopener noreferrer" for exactly those hrefs that
\* are absolute URLs whose origin differs from the page origin, and neither
\* for relative and same-origin links; the two attributes always come
\* together.
C17_ExternalLinksExactlyGetTargetAndRel ==
    fx.pc = "done" =>
        LET a == fx.out[1]
            external ==
                IsAbsoluteUrl(fx.in.href) /\ UrlOrigin(fx.in.href) # fx.in.env.origin
        IN /\ HasAttrNamed(a, "target") <=> HasAttrNamed(a, "rel")
           /\ fx.in.env.window =>
                 /\ HasAttr(a, "target", "_blank") <=> external
                 /\ HasAttr(a, "rel", "noopener noreferrer") <=> external

(***************************************************************************)
(* The sanitizer on its own                                                *)
(***************************************************************************)
MaxHtmlLen == 2   \* elements in an HTML string handed to the sanitizer

SanitizerInputs ==
    {Node("script", {}, <<"alert(1)">>),
     Node("style", {}, <<"p{}">>),
     Node("iframe", {<<"src", <<"/p">>>>}, <<>>),
     Node("img", {<<"src", <<"/p">>>>, <<"onerror", <<"alert(1)">>>>,
                  <<"style", <<"x">>>>}, <<>>),
     Node("div", {<<"class", <<"c">>>>, <<"data-x", <<"1">>>>,
                  <<"onclick", <<"alert(1)">>>>}, <<"t">>),
     Node("span", {<<"id", <<"i">>>>, <<"aria-label", <<"l">>>>}, <<"t">>),
     Node("custom-tag", {<<"onload", <<"alert(1)">>>>}, <<"t">>),
     Node("p", {}, <<"t">>)}

SanInit ==
    /\ PipelineAtRest
    /\ fx \in {[pc |-> "ready", in |-> h, out |-> <<>>, again |-> <<>>] :
                  h \in SeqsUpTo(SanitizerInputs, MaxHtmlLen)}
    /\ ed = EdIdle
    /\ ui = UiIdle

\* DOMPurify.sanitize(html, config)
SanitizeCall ==
    /\ fx.pc = "ready"
    /\ fx' = [fx EXCEPT !.pc = "once", !.out = Sanitize(fx.in)]
    /\ UNCHANGED <<env, markedOpts, running, call, memo, hl, ed, ui>>

\* the sanitized HTML handed to the sanitizer again
SanitizeAgainCall ==
    /\ fx.pc = "once"
    /\ fx' = [fx EXCEPT !.pc = "twice", !.again = Sanitize(fx.out)]
    /\ UNCHANGED <<env, markedOpts, running, call, memo, hl, ed, ui>>

SanNext == SanitizeCall \/ SanitizeAgainCall

SpecSan == SanInit /\ [][SanNext]_vars

\* the allow-lists as the specification enumerates them
ListedTags ==
    {"h1", "h2", "h3", "h4", "h5", "h6", "p", "br",
     "strong", "em", "u", "s", "del", "ins",
     "ul", "ol", "li", "dl", "dt", "dd",
     "blockquote", "q", "cite",
     "code", "pre", "kbd", "samp", "var",
     "a", "img", "figure", "figcaption",
     "table", "thead", "tbody", "tfoot", "tr", "td", "th", "caption",
     "div", "span", "section", "article", "aside", "nav", "header", "footer",
     "hr", "details", "summary"}

ListedAttrs ==
    {"href", "title", "alt", "src", "width", "height", "class", "id", "lang",
     "dir", "target", "rel", "type", "start", "reversed", "open", "colspan",
     "rowspan", "scope"}

\* C18: the sanitizer is configured with exactly the listed tags and the
\* listed attributes, so every element and every attribute of sanitized HTML
\* belongs to those lists (text aside); no script, style, iframe or on*
\* attribute survives.
C18_OnlyListedTagsAndAttributes ==
    /\ ALLOWED_TAGS = ListedTags
    /\ ALLOWED_ATTR = ListedAttrs
    /\ fx.pc \in {"once", "twice"} =>
          \A i \in 1..Len(fx.out) :
              /\ fx.out[i].tag \in ListedTags \cup {"#text"}
              /\ \A a \in fx.out[i].attrs : a[1] \in ListedAttrs

DEFAULT_CONTENT == "# Welcome"

Contents == {DEFAULT_CONTENT, "", "a", "b"}

\* JSON.stringify of a string: the string between double quotes
JsonStringify(v) == <<"dq", v, "dq">>

\* JSON.parse of a stringified string
JsonParse(item) == item[2]

\* localStorage.getItem(key): null when the key is absent
NoItem == [present |-> FALSE, item |-> <<>>]
Item(v) == [present |-> TRUE, item |-> JsonStringify(v)]

\* the initialisation effect that never looks at localStorage
InitialValueOnly(stored, initialValue) == initialValue

\* the value the initialisation effect sets: if (item) JSON.parse(item),
\* else the state stays at initialValue
ValueOnInitialize(stored, initialValue) ==
    IF stored.present /\ stored.item # <<>> THEN JsonParse(stored.item) ELSE initialValue

\* what the hook returns as content: isInitialized ? value : initialValue
Shown(e) == IF e.isInitialized THEN e.value ELSE DEFAULT_CONTENT

Unmounted(stored, before, reloaded, edited, unsaved) ==
    [pc |-> "unmounted", value |-> DEFAULT_CONTENT, debouncedValue |-> DEFAULT_CONTENT,
     isInitialized |-> FALSE, timer |-> FALSE, storage |-> stored,
     loaded |-> NoItem, written |-> FALSE,
     dirty |-> FALSE, edited |-> FALSE, fresh |-> FALSE,
     before |-> before, reloaded |-> reloaded,
     editedBefore |-> edited, unsavedBefore |-> unsaved]

StoreInit ==
    /\ PipelineAtRest
    /\ fx = FxIdle
    /\ ed \in {Unmounted(st, DEFAULT_CONTENT, FALSE, FALSE, FALSE) :
                  st \in {NoItem} \cup {Item(v) : v \in Contents}}
    /\ ui = UiIdle

\* the save effect without its condition
SaveAlways(isInitialized) == TRUE

\* the condition of the save effect: if (isInitialized)
SaveGuard(isInitialized) == isInitialized

\* the save effect of a render that saw debouncedValue and isInitialized:
\* localStorage.setItem(key, JSON.stringify(debouncedValue))
SaveEffect(e, debouncedValue, isInitialized) ==
    IF SaveGuard(isInitialized)
    THEN [e EXCEPT !.storage = Item(debouncedValue), !.written = TRUE]
    ELSE e

\* The page mounts: first render with initialValue.  Its effects run in
\* order: the initialisation effect reads localStorage (loaded) and queues
\* value, debouncedValue and isInitialized; the debounce effect starts its
\* timer; the save effect sees isInitialized = false.
Mount ==
    /\ ed.pc = "unmounted"
    /\ ed' = SaveEffect([ed EXCEPT !.pc = "initializing", !.loaded = ed.storage,
                                   !.timer = TRUE],
                        DEFAULT_CONTENT, FALSE)
    /\ UNCHANGED <<env, markedOpts, running, call, memo, hl, fx, ui>>

\* The re-render with the queued state: the debounce effect restarts its
\* timer and the save effect, now that isInitialized holds, writes
\* debouncedValue.
Initialize ==
    /\ ed.pc = "initializing"
    /\ LET v == ValueOnInitialize(ed.loaded, DEFAULT_CONTENT)
       IN ed' = SaveEffect([ed EXCEPT !.pc = "mounted", !.value = v,
                                      !.debouncedValue = v, !.isInitialized = TRUE,
                                      !.timer = TRUE, !.fresh = TRUE],
                           v, TRUE)
    /\ UNCHANGED <<env, markedOpts, running, call, memo, hl, fx, ui>>

\* handleContentChange / toolbar / import: setContent(newContent); the
\* debounce effect clears the pending timer and starts a new one.
Edit(newContent) ==
    /\ ed.pc = "mounted"
    /\ newContent # ed.value
    /\ ed' = [ed EXCEPT !.value = newContent, !.timer = TRUE,
                        !.dirty = TRUE, !.edited = TRUE, !.fresh = FALSE]
    /\ UNCHANGED <<env, markedOpts, running, call, memo, hl, fx, ui>>

\* The delay has passed: setDebouncedValue(value); if that changes
\* debouncedValue the save effect writes it to localStorage.
DebounceFire ==
    /\ ed.pc = "mounted"
    /\ ed.timer
    /\ LET e == [ed EXCEPT !.debouncedValue = ed.value, !.timer = FALSE, !.dirty = FALSE]
       IN ed' = IF ed.debouncedValue # ed.value
                THEN SaveEffect(e, ed.value, ed.isInitialized) ELSE e
    /\ UNCHANGED <<env, markedOpts, running, call, memo, hl, fx, ui>>

\* The page goes away (reload, navigation): the state and the pending timer
\* are gone, localStorage stays.
Unmount ==
    /\ ed.pc = "mounted"
    /\ ed' = Unmounted(ed.storage, Shown(ed), TRUE, ed.edited, ed.dirty)
    /\ UNCHANGED <<env, markedOpts, running, call, memo, hl, fx, ui>>

StoreNext ==
    \/ Mount
    \/ Initialize
    \/ \E c \in Contents : Edit(c)
    \/ DebounceFire
    \/ Unmount

SpecStore == StoreInit /\ [][StoreNext]_vars

\* The re-render that React has scheduled takes place, and a pending
\* setTimeout callback that is not cleared is run.
SpecStoreFair == SpecStore /\ WF_vars(Initialize) /\ WF_vars(DebounceFire)

\* the page has just come back from a reload and nothing was typed since
JustReloaded == ed.pc = "mounted" /\ ed.reloaded /\ ed.fresh

C24_EveryReturnIsSanitized ==
    \A s \in Sites :
        (Done(s) /\ env.window /\ call[s].options.sanitize # "false"
            /\ call[s].result # Placeholder)
            => call[s].sanitized

(***************************************************************************)
(* The resizable pane (useResizable, useResizeKeyboardShortcuts,           *)
(* useTouchResize and the separator's onKeyDown in ResizablePane)          *)
(*                                                                         *)
(* Widths are percentages.  Pointer positions are pixels in a container    *)
(* whose width divides them into whole percentages.                        *)
(***************************************************************************)
Max(a, b) == IF a >= b THEN a ELSE b
Min(a, b) == IF a <= b THEN a ELSE b

\* (min, max) as useResizable defaults them and as ResizablePane passes them
PaneLimits == {<<20, 80>>, <<25, 75>>, <<30, 60>>}

ClientXs == {0, 100}       \* clientX of a mouse or touch event
ContainerWidths == {100}   \* containerRect.width

\* (deltaX / containerRect.width) * 100
deltaPercent(deltaX, width) == (deltaX * 100) \div width

\* the new state with the width as given, not clamped
setWidthUnclamped(u, width) == [u EXCEPT !.leftWidth = width]

\* setWidth: Math.max(minWidth, Math.min(maxWidth, width))
setWidth(u, width) ==
    [u EXCEPT !.leftWidth = Max(u.minWidth, Min(u.maxWidth, width))]

\* rightWidth: 100 - resizeState.leftWidth
rightWidth(u) == 100 - u.leftWidth

Pane(min, max, initial) ==
    [pc |-> "pane", minWidth |-> min, maxWidth |-> max, initialWidth |-> initial,
     leftWidth |-> initial, isResizing |-> FALSE, startX |-> 0, startWidth |-> 0,
     isTouchResizing |-> FALSE, touchStartX |-> 0, touchStartWidth |-> 0]

ResizeInit ==
    /\ PipelineAtRest
    /\ fx = FxIdle
    /\ ed = EdIdle
    /\ ui \in {Pane(l[1], l[2], i) : l \in PaneLimits, i \in {20, 25, 30, 50, 60, 75, 80}}
    /\ ui.minWidth <= ui.initialWidth
    /\ ui.initialWidth <= ui.maxWidth

\* startResize (mousedown on the separator)
StartResize(x) ==
    /\ ui.pc = "pane"
    /\ ~ui.isResizing
    /\ ui' = [ui EXCEPT !.isResizing = TRUE, !.startX = x, !.startWidth = ui.leftWidth]
    /\ UNCHANGED <<env, markedOpts, running, call, memo, hl, fx, ed>>

\* handleMouseMove, the document listener startResize installs
MouseMove(x, width) ==
    /\ ui.pc = "pane"
    /\ ui.isResizing
    /\ ui' = [ui EXCEPT !.leftWidth =
                 Max(ui.minWidth,
                     Min(ui.maxWidth, ui.startWidth + deltaPercent(x - ui.startX, width)))]
    /\ UNCHANGED <<env, markedOpts, running, call, memo, hl, fx, ed>>

\* handleMouseUp
MouseUp ==
    /\ ui.pc = "pane"
    /\ ui.isResizing
    /\ ui' = [ui EXCEPT !.isResizing = FALSE]
    /\ UNCHANGED <<env, markedOpts, running, call, memo, hl, fx, ed>>

\* resetWidth, also the separator's Enter and space keys
ResetWidth ==
    /\ ui.pc = "pane"
    /\ ui' = [ui EXCEPT !.leftWidth = ui.initialWidth]
    /\ UNCHANGED <<env, markedOpts, running, call, memo, hl, fx, ed>>

\* the width a Ctrl/Cmd shortcut hands to setWidth
ShortcutWidth(key, leftWidth) ==
    CASE key = "1" -> 25
      [] key = "2" -> 50
      [] key = "3" -> 75
      [] key = "0" -> 50
      [] key = "ArrowLeft" -> Max(20, leftWidth - 5)
      [] key = "ArrowRight" -> Min(80, leftWidth + 5)

\* useResizeKeyboardShortcuts: handleKeyDown with ctrlKey or metaKey
CtrlKey(key) ==
    /\ ui.pc = "pane"
    /\ ui' = setWidth(ui, ShortcutWidth(key, ui.leftWidth))
    /\ UNCHANGED <<env, markedOpts, running, call, memo, hl, fx, ed>>

\* the separator's onKeyDown, arrow keys
SeparatorArrow(key) ==
    /\ ui.pc = "pane"
    /\ \/ key = "ArrowLeft" /\ ui.leftWidth > ui.minWidth
             /\ ui' = setWidth(ui, ui.leftWidth - 5)
       \/ key = "ArrowRight" /\ ui.leftWidth < ui.maxWidth
             /\ ui' = setWidth(ui, ui.leftWidth + 5)
    /\ UNCHANGED <<env, markedOpts, running, call, memo, hl, fx, ed>>

\* handleTouchStart with one touch
TouchStart(x) ==
    /\ ui.pc = "pane"
    /\ ~ui.isTouchResizing
    /\ ui' = [ui EXCEPT !.isTouchResizing = TRUE, !.touchStartX = x,
                        !.touchStartWidth = ui.leftWidth]
    /\ UNCHANGED <<env, markedOpts, running, call, memo, hl, fx, ed>>

\* handleTouchMove: Math.max(20, Math.min(80, ...)), then setWidth
TouchMove(x, width) ==
    /\ ui.pc = "pane"
    /\ ui.isTouchResizing
    /\ ui' = setWidth(ui, Max(20, Min(80, ui.touchStartWidth
                                             + deltaPercent(x - ui.touchStartX, width))))
    /\ UNCHANGED <<env, markedOpts, running, call, memo, hl, fx, ed>>

\* handleTouchEnd
TouchEnd ==
    /\ ui.pc = "pane"
    /\ ui.isTouchResizing
    /\ ui' = [ui EXCEPT !.isTouchResizing = FALSE]
    /\ UNCHANGED <<env, markedOpts, running, call, memo, hl, fx, ed>>

ResizeNext ==
    \/ \E x \in ClientXs : StartResize(x)
    \/ \E x \in ClientXs, w \in ContainerWidths : MouseMove(x, w)
    \/ MouseUp
    \/ ResetWidth
    \/ \E key \in {"1", "2", "3", "0", "ArrowLeft", "ArrowRight"} : CtrlKey(key)
    \/ \E key \in {"ArrowLeft", "ArrowRight"} : SeparatorArrow(key)
    \/ \E x \in ClientXs : TouchStart(x)
    \/ \E x \in ClientXs, w \in ContainerWidths : TouchMove(x, w)
    \/ TouchEnd

SpecResize == ResizeInit /\ [][ResizeNext]_vars

\* C21: from an initialWidth within [minWidth, maxWidth], after any drag
\* moves, setWidth calls, keyboard shortcuts, touch moves and resets,
\* minWidth <= leftWidth <= maxWidth and leftWidth + rightWidth = 100.
C21_WidthStaysWithinLimits ==
    ui.pc = "pane" =>
        /\ ui.minWidth <= ui.leftWidth
        /\ ui.leftWidth <= ui.maxWidth
        /\ ui.leftWidth + rightWidth(ui) = 100

\* a touch drag to the right, from a width below the maximum, that asked for
\* more than the maximum and was held at it
C21_Witness ==
    /\ ui.pc = "pane"
    /\ ui.isTouchResizing
    /\ ui.touchStartWidth < ui.maxWidth
    /\ ui.touchStartWidth + 100 > ui.maxWidth
    /\ ui.touchStartX = 0
    /\ ui.leftWidth = ui.maxWidth
    /\ ui.maxWidth < 80

(***************************************************************************)
(* File import (FileOperations: handleFileSelect, handleDrop, processFile  *)
(* and the FileReader callbacks; onImport is HomePage's handleFileImport)  *)
(***************************************************************************)
MaxReads == 2     \* FileReaders in flight at the same time

\* const maxSize = 10 * 1024 * 1024
maxSize == 10 * 1024 * 1024

validTypes == {<<".", "m", "d">>, <<".", "m", "a", "r", "k", "d", "o", "w", "n">>,
               <<".", "t", "x", "t">>}

\* String.prototype.lastIndexOf(ch): zero-based, -1 when absent
LastIndexOf(s, ch) ==
    LET at == {i \in 1..Len(s) : s[i] = ch}
    IN IF at = {} THEN -1 ELSE (CHOOSE i \in at : \A j \in at : j <= i) - 1

\* String.prototype.slice(start): a negative start counts from the end
Slice(s, start) ==
    LET from == IF start < 0 THEN Max(Len(s) + start, 0) ELSE Min(start, Len(s))
    IN SubSeq(s, from + 1, Len(s))

\* the extension taken without lower-casing the name
fileExtensionCaseSensitive(name) == Slice(name, LastIndexOf(name, "."))

\* file.name.toLowerCase().slice(file.name.lastIndexOf('.'))
fileExtension(name) == Slice(ToLowerCase(name), LastIndexOf(name, "."))

FileNames ==
    {<<"a", ".", "m", "d">>, <<"A", ".", "M", "D">>,
     <<"a", ".", "m", "a", "r", "k", "d", "o", "w", "n">>, <<"a", ".", "t", "x", "t">>,
     <<"a", ".", "p", "n", "g">>, <<"m", "d">>, <<"a", ".", "m", "d", ".", "p", "n", "g">>}

\* read: what the FileReader does with the file: "string" (onload with a
\* string result), "other" (onload with a result that is not a string),
\* "error" (onerror)
File(name, size, read) == [name |-> name, size |-> size, read |-> read, text |-> "imported text"]

\* every name at the size limit with a readable text, and two of the names
\* with every size and reader outcome
Files ==
    {File(n, maxSize, "string") : n \in FileNames}
        \cup {File(n, sz, r) : n \in {<<"A", ".", "M", "D">>, <<"a", ".", "p", "n", "g">>},
                               sz \in {maxSize, maxSize + 1},
                               r \in {"string", "other", "error"}}

\* the file lists a drop hands over: up to two files, none oversized
Drops == SeqsUpTo({File(n, maxSize, "string") : n \in FileNames}, 2)

NoFile == File(<<>>, 0, "error")

ImportIdle ==
    [pc |-> "import", content |-> "old text", notification |-> "none", reading |-> {},
     last |-> [file |-> NoFile, imported |-> FALSE, notified |-> "none",
               before |-> "old text", after |-> "old text"]]

ImportInit ==
    /\ PipelineAtRest
    /\ fx = FxIdle
    /\ ed = EdIdle
    /\ ui = ImportIdle

\* showNotification('error', ...) from a handler that does not import
Rejected(u, file) ==
    [u EXCEPT !.notification = "error",
              !.last = [file |-> file, imported |-> FALSE, notified |-> "error",
                        before |-> u.content, after |-> u.content]]

\* processFile up to reader.readAsText
processFile(u, file) ==
    IF fileExtension(file.name) \notin validTypes THEN Rejected(u, file)
    ELSE IF file.size > maxSize THEN Rejected(u, file)
    ELSE [u EXCEPT !.reading = @ \cup {file}]

\* handleFileSelect with a chosen file
SelectFile(file) ==
    /\ ui.pc = "import"
    /\ Cardinality(ui.reading \cup {file}) <= MaxReads
    /\ ui' = processFile(ui, file)
    /\ UNCHANGED <<env, markedOpts, running, call, memo, hl, fx, ed>>

\* handleDrop: the first file with a valid extension is processed
DropFiles(files) ==
    /\ ui.pc = "import"
    /\ LET valid == {i \in 1..Len(files) : fileExtension(files[i].name) \in validTypes}
       IN IF valid = {}
          THEN ui' = Rejected(ui, NoFile)
          ELSE LET markdownFile == files[CHOOSE i \in valid : \A j \in valid : i <= j]
               IN /\ Cardinality(ui.reading \cup {markdownFile}) <= MaxReads
                  /\ ui' = processFile(ui, markdownFile)
    /\ UNCHANGED <<env, markedOpts, running, call, memo, hl, fx, ed>>

\* reader.onload: onImport(content) and the success notification, or the
\* error notification when the result is not a string
ReaderLoad(file) ==
    /\ ui.pc = "import"
    /\ file \in ui.reading
    /\ file.read \in {"string", "other"}
    /\ ui' = IF file.read = "string"
             THEN [ui EXCEPT !.reading = @ \ {file}, !.content = file.text,
                             !.notification = "success",
                             !.last = [file |-> file, imported |-> TRUE,
                                       notified |-> "success",
                                       before |-> ui.content, after |-> file.text]]
             ELSE [Rejected(ui, file) EXCEPT !.reading = @ \ {file}]
    /\ UNCHANGED <<env, markedOpts, running, call, memo, hl, fx, ed>>

\* reader.onerror
ReaderError(file) ==
    /\ ui.pc = "import"
    /\ file \in ui.reading
    /\ file.read = "error"
    /\ ui' = [Rejected(ui, file) EXCEPT !.reading = @ \ {file}]
    /\ UNCHANGED <<env, markedOpts, running, call, memo, hl, fx, ed>>

\* setTimeout(() => setNotification(null), 3000)
NotificationTimeout ==
    /\ ui.pc = "import"
    /\ ui.notification # "none"
    /\ ui' = [ui EXCEPT !.notification = "none"]
    /\ UNCHANGED <<env, markedOpts, running, call, memo, hl, fx, ed>>

ImportNext ==
    \/ \E file \in Files : SelectFile(file)
    \/ \E files \in Drops : DropFiles(files)
    \/ \E file \in Files : ReaderLoad(file)
    \/ \E file \in Files : ReaderError(file)
    \/ NotificationTimeout

SpecImport == ImportInit /\ [][ImportNext]_vars

EndsWith(s, suffix) ==
    Len(s) >= Len(suffix) /\ SubSeq(s, Len(s) - Len(suffix) + 1, Len(s)) = suffix

\* the name, in lower case, ends in .md, .markdown or .txt
HasMarkdownExtension(name) ==
    \E ext \in {<<".", "m", "d">>, <<".", "m", "a", "r", "k", "d", "o", "w", "n">>,
                <<".", "t", "x", "t">>} : EndsWith(ToLowerCase(name), ext)

Themes == {"light", "dark"}

\* page loads followed in one behaviour
MaxLoads == 3

\* current === 'light' ? 'dark' : 'light', without looking at current
toggledAlwaysDark(current) == "dark"

\* toggleTheme: current => current === 'light' ? 'dark' : 'light'
toggled(current) == IF current = "light" THEN "dark" ELSE "light"

\* the inline script's test:
\* theme === 'dark' || (!theme && matchMedia('(prefers-color-scheme: dark)').matches)
ScriptAddsDark(stored, prefersDark) ==
    \/ stored.present /\ stored.item = <<"dark">>
    \/ (~stored.present \/ stored.item = <<>>) /\ prefersDark

\* what ThemeProvider's context offers as theme
CurrentTheme(u) == IF u.isInitialized THEN u.storedValue ELSE "light"

\* useSystemTheme.updateSystemTheme: mediaQuery.matches ? 'dark' : 'light'
SystemTheme(matches) == IF matches THEN "dark" ELSE "light"

\* storage is the item under 'markdown-editor-theme', systemStorage the item
\* under 'system-theme-preference' (useSystemTheme, used by ThemeToggle)
ThemePage(stored, systemStored, prefersDark, lastSaved, loads) ==
    [pc |-> "loading", loads |-> loads, storage |-> stored, systemStorage |-> systemStored,
     prefersDark |-> prefersDark,
     rootClasses |-> {}, storedValue |-> "light", isInitialized |-> FALSE,
     lastSaved |-> lastSaved, lastOp |-> "none", prev |-> "light"]

ThemeInit ==
    /\ PipelineAtRest
    /\ fx = FxIdle
    /\ ed = EdIdle
    /\ ui \in {ThemePage(NoItem, NoItem, d, "none", 1) : d \in BOOLEAN}

\* the inline script in <head>, before hydration
InlineScript ==
    /\ ui.pc = "loading"
    /\ ui' = [ui EXCEPT !.pc = "scripted",
                        !.rootClasses = IF ScriptAddsDark(ui.storage, ui.prefersDark)
                                        THEN {"dark"} ELSE {}]
    /\ UNCHANGED <<env, markedOpts, running, call, memo, hl, fx, ed>>

\* ThemeProvider and ThemeToggle mount: the first render offers the default
\* theme, the effect on [theme] removes 'light' and 'dark' from the root and
\* adds it, and useSystemTheme stores the system preference
HydrateTheme ==
    /\ ui.pc = "scripted"
    /\ ui' = [ui EXCEPT !.pc = "hydrated",
                        !.rootClasses = (@ \ {"light", "dark"}) \cup {CurrentTheme(ui)},
                        !.systemStorage = Item(SystemTheme(ui.prefersDark))]
    /\ UNCHANGED <<env, markedOpts, running, call, memo, hl, fx, ed>>

\* useLocalStorage has read the key: the re-render offers the stored theme
\* and the effect on [theme] runs again
MountTheme ==
    /\ ui.pc = "hydrated"
    /\ LET v == ValueOnInitialize(ui.storage, "light")
       IN ui' = [ui EXCEPT !.pc = "mounted", !.storedValue = v, !.isInitialized = TRUE,
                           !.rootClasses = (@ \ {"light", "dark"}) \cup {v},
                           !.lastOp = "none"]
    /\ UNCHANGED <<env, markedOpts, running, call, memo, hl, fx, ed>>

\* useLocalStorage.setValue(valueToStore) followed by the re-render and the
\* effect on [theme]
Persist(u, valueToStore, op) ==
    [u EXCEPT !.storedValue = valueToStore, !.storage = Item(valueToStore),
              !.rootClasses = (@ \ {"light", "dark"}) \cup {valueToStore},
              !.lastSaved = valueToStore, !.lastOp = op, !.prev = CurrentTheme(u)]

\* toggleTheme (the ThemeToggle button)
ToggleTheme ==
    /\ ui.pc = "mounted"
    /\ ui' = Persist(ui, toggled(ui.storedValue), "toggle")
    /\ UNCHANGED <<env, markedOpts, running, call, memo, hl, fx, ed>>

\* setTheme(theme)
SetTheme(t) ==
    /\ ui.pc = "mounted"
    /\ ui' = Persist(ui, t, "set")
    /\ UNCHANGED <<env, markedOpts, running, call, memo, hl, fx, ed>>

\* the system colour scheme changes while the page is open: handleChange
\* sets the theme only if nothing is stored under the key, and
\* updateSystemTheme stores the new preference
SystemThemeChange ==
    /\ ui.pc = "mounted"
    /\ LET matches == ~ui.prefersDark
           u == [ui EXCEPT !.prefersDark = matches,
                           !.systemStorage = Item(SystemTheme(matches))]
       IN ui' = IF ~ui.storage.present \/ ui.storage.item = <<>>
                THEN Persist(u, IF matches THEN "dark" ELSE "light", "set")
                ELSE u
    /\ UNCHANGED <<env, markedOpts, running, call, memo, hl, fx, ed>>

\* the page is left or reloaded: the document and the React state are gone
UnloadPage ==
    /\ ui.pc = "mounted"
    /\ ui.loads < MaxLoads
    /\ ui' = ThemePage(ui.storage, ui.systemStorage, ui.prefersDark, ui.lastSaved,
                       ui.loads + 1)
    /\ UNCHANGED <<env, markedOpts, running, call, memo, hl, fx, ed>>

\* the system colour scheme changes while no page is open
SystemThemeChangeAway ==
    /\ ui.pc = "loading"
    /\ ui' = [ui EXCEPT !.prefersDark = ~@]
    /\ UNCHANGED <<env, markedOpts, running, call, memo, hl, fx, ed>>

ThemeNext ==
    \/ InlineScript
    \/ HydrateTheme
    \/ MountTheme
    \/ ToggleTheme
    \/ \E t \in Themes : SetTheme(t)
    \/ SystemThemeChange
    \/ UnloadPage
    \/ SystemThemeChangeAway

SpecTheme == ThemeInit /\ [][ThemeNext]_vars

C28_InlineScriptAppliesStoredDark ==
    (ui.pc = "scripted" /\ ui.lastSaved = "dark") => "dark" \in ui.rootClasses

(***************************************************************************)
(* Preview: the rendered HTML and the metadata of one content              *)
(*                                                                         *)
(* The content is a text of characters, given as lines.  The engine is     *)
(* modelled on these lines: ATX headings, paragraphs, blank lines, and a   *)
(* block of raw HTML that starts with a <p> tag.                           *)
(***************************************************************************)
MaxLines == 3    \* lines in a content handed to Preview

\* the placeholder's markup, typed as markdown
PlaceholderHtml ==
    <<"<", "p", " ", "c", "l", "a", "s", "s", "=", "\"", "t", "e",
      "x", "t", "-", "m", "u", "t", "e", "d", "-", "f", "o", "r",
      "e", "g", "r", "o", "u", "n", "d", " ", "i", "t", "a", "l",
      "i", "c", "\"", ">", "S", "t", "a", "r", "t", " ", "t", "y",
      "p", "i", "n", "g", " ", "t", "o", " ", "s", "e", "e", " ",
      "p", "r", "e", "v", "i", "e", "w", ".", ".", ".", "<", "/",
      "p", ">">>

RECURSIVE JoinLines(_)
JoinLines(ls) ==
    IF ls = <<>> THEN <<>>
    ELSE IF Len(ls) = 1 THEN Head(ls)
    ELSE Head(ls) \o <<"\n">> \o JoinLines(Tail(ls))

PreviewLines ==
    {<<>>, <<" ">>, <<"a">>, <<"#">>,
     <<"#", " ", "A">>,
     <<"#", " ", "A", " ", "#">>,
     <<"#", "#", " ", "A", " ", "&", " ", "a">>}

PreviewContents ==
    {JoinLines(ls) : ls \in SeqsUpTo(PreviewLines, MaxLines)}
        \cup {PlaceholderHtml, JoinLines(<<PlaceholderHtml, <<"#", " ", "A">>>>)}

\* the engine's heading rule /^ {0,3}(#{1,6})(?=\s|$)(.*)(?:\n+|$)/ on a
\* line that is not indented
IsAtxHeading(line) ==
    LET h == RunLen(line, 1, {"#"})
    IN h >= 1 /\ h <= 6 /\ (Len(line) = h \/ line[h + 1] \in Whitespace)

\* the heading's text: trimmed, and without a closing sequence of '#' that
\* follows a space or makes up the whole text
AtxText(line) ==
    LET h == RunLen(line, 1, {"#"})
        text == Trim(SubSeq(line, h + 1, Len(line)))
        n == Len(text)
        k == CHOOSE x \in 0..n :
                 /\ \A i \in (n - x + 1)..n : text[i] = "#"
                 /\ (x = n \/ text[n - x] # "#")
        trimmed == SubSeq(text, 1, n - k)
    IN IF k > 0 /\ (trimmed = <<>> \/ trimmed[Len(trimmed)] = " ")
       THEN Trim(trimmed) ELSE text

RECURSIVE InlineText(_)
\* the engine's inline output for text without markup: & becomes &amp;
InlineText(t) ==
    IF t = <<>> THEN <<>>
    ELSE (IF Head(t) = "&" THEN AMP ELSE <<Head(t)>>) \o InlineText(Tail(t))

HeadingTag(level) == <<"h1", "h2", "h3", "h4", "h5", "h6">>[level]

HeadingClass(level) ==
    <<"heading-1", "heading-2", "heading-3", "heading-4", "heading-5", "heading-6">>[level]

\* renderer.heading(text, level), text being the engine's inline output:
\* <h${level} id="${id}" class="heading-${level}">${text}</h${level}>
renderer_heading(text, level) ==
    Node(HeadingTag(level),
         {<<"id", headingId(text)>>, <<"class", <<HeadingClass(level)>>>>},
         text)

\* a line that opens a block of raw HTML
IsHtmlStart(line) == Len(line) >= 2 /\ line[1] = "<" /\ line[2] = "p"

\* the raw HTML block as the browser parses it: the placeholder's markup is
\* the placeholder's element, and lines after it are text
HtmlBlock(first, rest) ==
    (IF first = PlaceholderHtml THEN Placeholder ELSE <<Node("#text", {}, first)>>)
        \o (IF rest = <<>> THEN <<>> ELSE <<Node("#text", {}, rest)>>)

RECURSIVE MarkedLines(_, _, _)
\* marked.parse over the lines: open is the block under construction
\* ("none", "p" or "html") and acc what it holds so far
MarkedLines(ls, open, acc) ==
    LET flush ==
            CASE open = "p" -> <<Node("p", {}, InlineText(acc))>>
              [] open = "html" -> HtmlBlock(acc[1], acc[2])
              [] OTHER -> <<>>
    IN IF ls = <<>> THEN flush
       ELSE LET l == Head(ls)
                blank == Trim(l) = <<>>
            IN CASE open = "html" /\ ~blank ->
                        MarkedLines(Tail(ls), "html", <<acc[1], acc[2] \o <<"\n">> \o l>>)
                 [] open = "html" /\ blank -> flush \o MarkedLines(Tail(ls), "none", <<>>)
                 [] open # "html" /\ blank -> flush \o MarkedLines(Tail(ls), "none", <<>>)
                 [] open # "html" /\ ~blank /\ IsAtxHeading(l) ->
                        flush \o <<renderer_heading(InlineText(AtxText(l)), RunLen(l, 1, {"#"}))>>
                              \o MarkedLines(Tail(ls), "none", <<>>)
                 [] open # "html" /\ ~blank /\ ~IsAtxHeading(l) /\ IsHtmlStart(l) ->
                        flush \o MarkedLines(Tail(ls), "html", <<l, <<>>>>)
                 [] OTHER ->
                        MarkedLines(Tail(ls), "p",
                                    IF open = "p" THEN acc \o <<"\n">> \o TrimStart(l)
                                    ELSE TrimStart(l))

\* content.trim().length > 0, without the trim
hasContentUntrimmed(content) == Len(content) > 0

\* Preview's hasContent: content.trim().length > 0
hasContent(content) == Len(Trim(content)) > 0

\* parseMarkdown(content, {breaks: true, gfm: true, sanitize: true}) in the
\* browser, on a content of characters
parsedContent(content) ==
    IF Trim(content) = <<>> THEN Placeholder
    ELSE Sanitize(MarkedLines(Lines(content), "none", <<>>))

\* Preview's two memoised values for one content
Preview(content) ==
    LET wordCount == countWords(content)
    IN [parsedContent |-> parsedContent(content),
        headings |-> extractHeadings(content),
        wordCount |-> wordCount,
        readingTime |-> estimateReadingTime(wordCount, OmittedWpm),
        hasContent |-> hasContent(content)]

PreviewInit ==
    /\ PipelineAtRest
    /\ fx \in {[pc |-> "ready", in |-> c, out |-> <<>>] : c \in PreviewContents}
    /\ ed = EdIdle
    /\ ui = UiIdle

RenderPreview ==
    /\ fx.pc = "ready"
    /\ fx' = [fx EXCEPT !.pc = "done", !.out = Preview(fx.in)]
    /\ UNCHANGED <<env, markedOpts, running, call, memo, hl, ed, ui>>

PreviewNext == RenderPreview

SpecPreview == PreviewInit /\ [][PreviewNext]_vars

\* the heading elements of rendered HTML, in document order
HeadingElements(html) ==
    SelectSeq(html, LAMBDA n : n.tag \in {"h1", "h2", "h3", "h4", "h5", "h6"})

IdOf(n) == (CHOOSE a \in n.attrs : a[1] = "id")[2]

\* C25: for every heading of a document the id extractHeadings computes is
\* the id attribute the heading renderer writes into the rendered HTML for
\* that heading, so every table-of-contents entry targets an existing
\* element.
C25_TocIdsAreRenderedIds ==
    fx.pc = "done" =>
        \A k \in 1..Len(fx.out.headings) :
            \E n \in 1..Len(HeadingElements(fx.out.parsedContent)) :
                LET element == HeadingElements(fx.out.parsedContent)[n]
                IN /\ element.tag = HeadingTag(fx.out.headings[k].level)
                   /\ IdOf(element) = fx.out.headings[k].id

\* C26: hasContent is false exactly when parseMarkdown returns the
\* placeholder, and hasContent = false implies wordCount = 0,
\* readingTime = 0 and no headings.
C26_HasContentIffNotPlaceholder ==
    fx.pc = "done" =>
        /\ fx.out.hasContent = FALSE <=> fx.out.parsedContent = Placeholder
        /\ fx.out.hasContent = FALSE =>
               fx.out.wordCount = 0 /\ fx.out.readingTime = 0 /\ fx.out.headings = <<>>

\* C26, amended: hasContent is false exactly when the content is blank; then
\* parseMarkdown returns the placeholder, wordCount = 0, readingTime = 0 and
\* there are no headings.  A content with hasContent = true is rendered as
\* the placeholder only if it is the placeholder's own markup.
C26_BlankContentHasEmptyMetadata ==
    fx.pc = "done" =>
        /\ fx.out.hasContent = FALSE <=> Trim(fx.in) = <<>>
        /\ fx.out.hasContent = FALSE =>
               /\ fx.out.parsedContent = Placeholder
               /\ fx.out.wordCount = 0 /\ fx.out.readingTime = 0
               /\ fx.out.headings = <<>>
        /\ (fx.out.hasContent /\ fx.out.parsedContent = Placeholder) =>
               fx.in = PlaceholderHtml

\* a content of whitespace on several lines
C26_Witness ==
    /\ fx.pc = "done"
    /\ Len(fx.in) >= 3
    /\ fx.out.hasContent = FALSE
    /\ fx.out.parsedContent = Placeholder
    /\ fx.out.wordCount = 0

(***************************************************************************)
(* More properties of the persisted editor content                         *)
(***************************************************************************)
\* the key was written only by renders that saw isInitialized
NoWriteBeforeInitialRead == ed.written => ed.isInitialized

\* a document found at load is still the stored item until the first edit
StoredDocumentSurvivesLoad ==
    (ed.pc # "unmounted" /\ ~ed.edited /\ ed.loaded.present) => ed.storage = ed.loaded

====
